---- MODULE Spec2Model ----
(***************************************************************************)
(* A model of the pdf-to-audio web client: the library store               *)
(* (LibraryManager), the text source adapter (PDFHandler), the playback    *)
(* position tracker (TTSManager) and the upload flow (App.processFile).    *)
(*                                                                         *)
(* Texts are sequences of one-character strings.  Character offsets that   *)
(* TTSManager keeps are JavaScript numbers: seek() adds textLength * 0.1   *)
(* to them, so the model keeps currentPosition in tenths of a character.   *)
(* Timestamps (addedAt, createdAt, lastPlayed), file sizes, toasts and the *)
(* rendered DOM text are left out: no modelled branch reads them.          *)
(***************************************************************************)
EXTENDS Integers, Sequences, FiniteSets, TLC

(***************************************************************************)
(* Bounds of the model.                                                    *)
(***************************************************************************)
MaxProcs == 2
MaxIds == 7
MaxInitItems == 4
MaxApiItems == 2
MaxPlayItems == 2
MaxSpeakItems == 1
MaxPasswordLen == 2
MaxToasts == 3
MaxUsers == 2
MaxFileIds == 3
MaxClicks == 2

(***************************************************************************)
(* Program constants.                                                      *)
(***************************************************************************)
MAX_FREE_ITEMS == 5
MAX_FREE_BOOKMARKS == 3
SEEK_STEP == 10
SNIPPET_LEN == 100
Tenths == 10

SP == " "
NL == "\n"
Null == "null"

(***************************************************************************)
(* String helpers: JavaScript's String.prototype methods on sequences of   *)
(* characters.                                                             *)
(***************************************************************************)
Min(a, b) == IF a < b THEN a ELSE b
Max(a, b) == IF a > b THEN a ELSE b

\* \s of a JavaScript regular expression, over the model's alphabet.
IsSpace(c) == c \in {SP, NL}

\* text.slice(start) and text.slice(start, end) for 0 <= start.
Slice(text, start, end) ==
  LET s == Min(Max(start, 0), Len(text))
      e == Min(Max(end, 0), Len(text))
  IN  IF e <= s THEN <<>> ELSE SubSeq(text, s + 1, e)

SliceFrom(text, start) == Slice(text, start, Len(text))

\* text.trim()
RECURSIVE TrimLeft(_)
TrimLeft(text) ==
  IF text # <<>> /\ IsSpace(Head(text)) THEN TrimLeft(Tail(text)) ELSE text

RECURSIVE TrimRight(_)
TrimRight(text) ==
  IF text # <<>> /\ IsSpace(text[Len(text)])
  THEN TrimRight(SubSeq(text, 1, Len(text) - 1))
  ELSE text

Trim(text) == TrimRight(TrimLeft(text))

\* The first index >= i whose character is not white space (Len + 1 if none).
RECURSIVE SkipSpaces(_, _)
SkipSpaces(text, i) ==
  IF i <= Len(text) /\ IsSpace(text[i]) THEN SkipSpaces(text, i + 1) ELSE i

\* text.replace(/\s+/g, ' ')
RECURSIVE CollapseSpaces(_)
CollapseSpaces(text) ==
  IF text = <<>> THEN <<>>
  ELSE IF IsSpace(Head(text))
       THEN <<SP>> \o CollapseSpaces(SliceFrom(text, SkipSpaces(text, 1) - 1))
       ELSE <<Head(text)>> \o CollapseSpaces(Tail(text))

\* The last index of a newline in text[lo..hi], 0 if none.
RECURSIVE LastNewline(_, _, _)
LastNewline(text, lo, hi) ==
  IF hi < lo THEN 0
  ELSE IF text[hi] = NL THEN hi ELSE LastNewline(text, lo, hi - 1)

\* text.replace(/\n\s*\n/g, '\n\n'): a newline, the longest run of white
\* space after it that still ends in a newline.
RECURSIVE CollapseBlankLines(_)
CollapseBlankLines(text) ==
  IF text = <<>> THEN <<>>
  ELSE IF Head(text) = NL
       THEN LET runEnd == SkipSpaces(text, 2) - 1
                last == LastNewline(text, 2, runEnd)
            IN  IF last > 0
                THEN <<NL, NL>> \o CollapseBlankLines(SliceFrom(text, last))
                ELSE <<NL>> \o CollapseBlankLines(Tail(text))
       ELSE <<Head(text)>> \o CollapseBlankLines(Tail(text))

\* The first index j >= i with text[j] = close and no newline in text[i..j-1]
\* ('.' does not match a line terminator); 0 if none.
RECURSIVE FindClose(_, _, _)
FindClose(text, i, close) ==
  IF i > Len(text) THEN 0
  ELSE IF text[i] = close THEN i
  ELSE IF text[i] = NL THEN 0
  ELSE FindClose(text, i + 1, close)

\* text.replace(/\[.*?\]/g, '') and text.replace(/\(.*?\)/g, ''): the shortest
\* span from an opening to the next closing character is removed.
RECURSIVE RemoveEnclosed(_, _, _)
RemoveEnclosed(text, open, close) ==
  IF text = <<>> THEN <<>>
  ELSE IF Head(text) = open
       THEN LET j == FindClose(text, 2, close)
            IN  IF j > 0
                THEN RemoveEnclosed(SliceFrom(text, j), open, close)
                ELSE <<open>> \o RemoveEnclosed(Tail(text), open, close)
       ELSE <<Head(text)>> \o RemoveEnclosed(Tail(text), open, close)

\* PDFHandler.cleanText
cleanText(text) ==
  Trim(RemoveEnclosed(RemoveEnclosed(CollapseBlankLines(CollapseSpaces(text)),
                                     "[", "]"), "(", ")"))

\* The first index >= i whose character is not a newline.
RECURSIVE SkipNewlines(_, _)
SkipNewlines(text, i) ==
  IF i <= Len(text) /\ text[i] = NL THEN SkipNewlines(text, i + 1) ELSE i

\* text.split(/\n\n+/): the pieces between runs of two or more newlines.
RECURSIVE SplitFrom(_, _, _)
SplitFrom(text, i, piece) ==
  IF i > Len(text) THEN <<piece>>
  ELSE IF text[i] = NL /\ i < Len(text) /\ text[i + 1] = NL
       THEN <<piece>> \o SplitFrom(text, SkipNewlines(text, i), <<>>)
       ELSE SplitFrom(text, i + 1, Append(piece, text[i]))

SplitBlankLines(text) == SplitFrom(text, 1, <<>>)

\* The concatenation of a sequence of texts, each followed by '\n\n'
\* (the loop of PDFHandler.extractText).
RECURSIVE JoinPages(_)
JoinPages(texts) ==
  IF texts = <<>> THEN <<>>
  ELSE Head(texts) \o <<NL, NL>> \o JoinPages(Tail(texts))

(***************************************************************************)
(* The files a user can supply.  A parsed document (pdf.js, a black box)   *)
(* is its name and the text extractPageText yields for each page.  type    *)
(* and ext are what Utils.isPDFFile reads; valid says whether getDocument  *)
(* resolves; failPage is a page whose extraction rejects (0: none).        *)
(***************************************************************************)
PDF_TYPE == "application/pdf"

FileA ==
  [name |-> "a.pdf", ext |-> "pdf", type |-> PDF_TYPE, valid |-> TRUE,
   failPage |-> 0, pages |-> << <<"a", SP, SP, SP, "b">> >>]

FileB ==
  [name |-> "b.PDF", ext |-> "PDF", type |-> "", valid |-> TRUE,
   failPage |-> 0, pages |-> << <<"c">>, <<"d", "[", "x", "]">> >>]

\* A scanned document: one page without text.
FileE ==
  [name |-> "e.pdf", ext |-> "pdf", type |-> PDF_TYPE, valid |-> TRUE,
   failPage |-> 0, pages |-> << <<>> >>]

FileTxt ==
  [name |-> "notes.txt", ext |-> "txt", type |-> "text/plain", valid |-> FALSE,
   failPage |-> 0, pages |-> <<>>]

\* Named .pdf, but not a PDF: getDocument rejects.
FileBad ==
  [name |-> "bad.pdf", ext |-> "pdf", type |-> PDF_TYPE, valid |-> FALSE,
   failPage |-> 0, pages |-> <<>>]

\* A document whose second page cannot be extracted.
FileP ==
  [name |-> "p.pdf", ext |-> "pdf", type |-> PDF_TYPE, valid |-> TRUE,
   failPage |-> 2, pages |-> << <<"a">>, <<"b">> >>]

AllFiles == {FileA, FileB, FileE, FileTxt, FileBad, FileP}

\* name.toLowerCase(), on the extension the model keeps.
ToLowerCase(ext) ==
  CASE ext = "PDF" -> "pdf"
    [] ext = "Pdf" -> "pdf"
    [] OTHER -> ext

\* isPDFFile that takes every file for a PDF.
isPDFFileAny(file) == TRUE

\* Utils.isPDFFile
isPDFFile(file) == file.type = PDF_TYPE \/ ToLowerCase(file.ext) = "pdf"

VARIABLES
  library,      \* localStorage[LibraryManager.STORAGE_KEY]: the saved items
  premium,      \* the locally stored premium flag (PremiumManager.isPremium)
  AuthManager,  \* localStorage[USERS_KEY], localStorage[CURRENT_USER_KEY]:
                \* [users, currentUser]
  Toast,        \* the toasts created so far, with their pending timers
  nextId,       \* the identifiers Utils.generateId has handed out
  PDFHandler,   \* [pdfDoc, currentFile, extractedText, pages, totalPages]
  TTSManager,   \* [currentPosition, textLength, isPlaying, playbackRate,
                \*  utterance]
  synth,        \* window.speechSynthesis: [state, paused, cancelled, queued]
  progressBar,  \* the value last written to #progress-bar, as n / d
  Modal,        \* [activeModal, shown]
  procs,        \* the processFile invocations in flight
  lastEvent     \* the handler that ran last and what it returned

vars ==
  <<library, premium, AuthManager, Toast, nextId, PDFHandler, TTSManager,
    synth, progressBar, Modal, procs, lastEvent>>

Procs == 1..MaxProcs

(***************************************************************************)
(* LibraryManager                                                          *)
(***************************************************************************)
\* The index of the first item with this id, 0 if none (Array.findIndex).
RECURSIVE FindIndexFrom(_, _, _)
FindIndexFrom(lib, id, i) ==
  IF i > Len(lib) THEN 0
  ELSE IF lib[i].id = id THEN i ELSE FindIndexFrom(lib, id, i + 1)

findIndex(lib, id) == FindIndexFrom(lib, id, 1)

\* library.filter(item => item.id !== id)
RECURSIVE FilterOut(_, _)
FilterOut(lib, id) ==
  IF lib = <<>> THEN <<>>
  ELSE IF Head(lib).id = id THEN FilterOut(Tail(lib), id)
       ELSE <<Head(lib)>> \o FilterOut(Tail(lib), id)

\* Utils.storageSet: the write is dropped when localStorage.setItem throws.
storageSet(old, new, ok) == IF ok THEN new ELSE old

\* PremiumManager.isPremium()
isPremium == premium

\* canAddFile with the bound off by one (remaining >= 0).
canAddFileOffByOne ==
  [canAdd |-> isPremium \/ MAX_FREE_ITEMS - Len(library) >= 0,
   isPremium |-> isPremium]

\* LibraryManager.canAddFile: maxItems is Infinity for a premium user.
canAddFile ==
  [canAdd |-> isPremium \/ MAX_FREE_ITEMS - Len(library) > 0,
   isPremium |-> isPremium]

\* LibraryManager.createFileData
createFileData(id, file, text) ==
  [id |-> id, name |-> file.name, text |-> text, bookmarks |-> <<>>,
   progress |-> 0]

\* LibraryManager.addFile: the library it hands to saveLibrary.
addFile(lib, fileData) ==
  LET existingIndex == findIndex(lib, fileData.id)
  IN  IF existingIndex # 0
      THEN [lib EXCEPT ![existingIndex] = fileData]
      ELSE <<fileData>> \o lib

\* LibraryManager.removeFile: the library it hands to saveLibrary.
removeFile(lib, id) == FilterOut(lib, id)

\* LibraryManager.getFile: <<>> stands for null.
getFile(lib, id) ==
  IF findIndex(lib, id) = 0 THEN <<>> ELSE <<lib[findIndex(lib, id)]>>

\* LibraryManager.updateProgress
updateProgress(lib, id, progress) ==
  LET i == findIndex(lib, id)
  IN  IF i = 0 THEN lib ELSE [lib EXCEPT ![i].progress = progress]

\* The free-tier test of LibraryManager.addBookmark.
bookmarkRejected(file) ==
  ~isPremium /\ Len(file.bookmarks) >= MAX_FREE_BOOKMARKS

\* LibraryManager.addBookmark: the library after file.bookmarks.push(...).
addBookmark(lib, id, bmId, bookmark) ==
  LET i == findIndex(lib, id)
  IN  [lib EXCEPT ![i].bookmarks =
         Append(@, [id |-> bmId, position |-> bookmark.position,
                    text |-> bookmark.text])]

(***************************************************************************)
(* AuthManager.  a is [users, currentUser], the two stored values;         *)
(* currentUser is <<>> for null.  Each operator yields the stored values   *)
(* after the call, the ones that return a result with it.                  *)
(***************************************************************************)
\* String.prototype.toLowerCase over the model's alphabet.
LowerChar(c) ==
  CASE c = "A" -> "a"
    [] c = "B" -> "b"
    [] OTHER -> c

toLowerCase(text) == [i \in 1..Len(text) |-> LowerChar(text[i])]

\* String.prototype.charCodeAt for the characters of the model's passwords.
CharCode(c) ==
  CASE c = "p" -> 112
    [] c = "q" -> 113
    [] OTHER -> 63

\* Number.prototype.toString(16) of a number >= 0, most significant first.
RECURSIVE HexDigits(_)
HexDigits(n) ==
  IF n < 16 THEN <<n>> ELSE Append(HexDigits(n \div 16), n % 16)

\* The loop of AuthManager.hashPassword from hash: ((hash << 5) - hash) + char
\* is 31 * hash + char; `hash & hash` wraps it to 32 bits, which leaves the
\* hash of a password of up to MaxPasswordLen characters as it is.
RECURSIVE HashFrom(_, _)
HashFrom(hash, password) ==
  IF password = <<>> THEN hash
  ELSE HashFrom(31 * hash + CharCode(Head(password)), Tail(password))

\* AuthManager.hashPassword
hashPassword(password) == HexDigits(HashFrom(0, password))

\* verifyPassword that accepts every password.
verifyPasswordAny(password, hashedPassword) == TRUE

\* AuthManager.verifyPassword
verifyPassword(password, hashedPassword) ==
  hashPassword(password) = hashedPassword

\* users.find(u => u.email.toLowerCase() === email.toLowerCase()) || null
RECURSIVE findUserByEmail(_, _)
findUserByEmail(users, email) ==
  IF users = <<>> THEN <<>>
  ELSE IF toLowerCase(Head(users).email) = toLowerCase(email)
       THEN <<Head(users)>>
       ELSE findUserByEmail(Tail(users), email)

\* setCurrentUser that stores the user record as it is.
setCurrentUserWithPassword(a, user, ok) ==
  [a EXCEPT !.currentUser = storageSet(@, <<user>>, ok)]

\* AuthManager.setCurrentUser: the record without its password is stored.
setCurrentUser(a, user, ok) ==
  [a EXCEPT !.currentUser =
     storageSet(@, <<[f \in DOMAIN user \ {"password"} |-> user[f]]>>, ok)]

\* AuthManager.register; okUsers, okCurrent: whether each write is accepted.
register(a, id, name, email, password, okUsers, okCurrent) ==
  IF findUserByEmail(a.users, email) # <<>>
  THEN [auth |-> a, ret |-> "Email already registered"]
  ELSE LET newUser == [id |-> id, name |-> Trim(name),
                       email |-> toLowerCase(Trim(email)),
                       password |-> hashPassword(password),
                       isPremium |-> FALSE, premiumExpiresAt |-> Null]
           saved == [a EXCEPT !.users =
                       storageSet(@, Append(@, newUser), okUsers)]
       IN  [auth |-> setCurrentUser(saved, newUser, okCurrent),
            ret |-> "success"]

\* AuthManager.login
login(a, email, password, ok) ==
  LET user == findUserByEmail(a.users, email)
  IN  IF user = <<>>
      THEN [auth |-> a, ret |-> "Account not found. Please sign up first."]
      ELSE IF ~verifyPassword(password, user[1].password)
      THEN [auth |-> a, ret |-> "Incorrect password"]
      ELSE [auth |-> setCurrentUser(a, user[1], ok), ret |-> "success"]

\* AuthManager.logout
logout(a) == [a EXCEPT !.currentUser = <<>>]

\* AuthManager.isLoggedIn
isLoggedIn == AuthManager.currentUser # <<>>

\* AuthManager.updatePremiumStatus
updatePremiumStatus(a, premiumStatus, expiresAt, okCurrent, okUsers) ==
  IF a.currentUser = <<>> THEN a
  ELSE LET currentUser == [a.currentUser[1] EXCEPT
                             !.isPremium = premiumStatus,
                             !.premiumExpiresAt = expiresAt]
           current == setCurrentUser(a, currentUser, okCurrent)
           userIndex == findIndex(current.users, currentUser.id)
       IN  IF userIndex = 0 THEN current
           ELSE [current EXCEPT !.users =
                   storageSet(@, [@ EXCEPT
                                    ![userIndex].isPremium = premiumStatus,
                                    ![userIndex].premiumExpiresAt = expiresAt],
                              okUsers)]

(***************************************************************************)
(* Toast.  A toast is [attached, timer, removals]: whether it is a child   *)
(* of the container, whether its duration timer is pending, and how many   *)
(* 300 ms removal timers are pending for it.                               *)
(***************************************************************************)
\* Toast.show: the toast is appended and its duration timer started.
toastShow(toasts) ==
  Append(toasts, [attached |-> TRUE, timer |-> TRUE, removals |-> 0])

\* remove that starts no removal timer.
toastRemoveNoTimer(toasts, i) == toasts

\* Toast.remove(toast): a toast that has a parent gets a removal timer.
toastRemove(toasts, i) ==
  IF toasts[i].attached
  THEN [toasts EXCEPT ![i].removals = @ + 1]
  ELSE toasts

\* The callback of Toast.remove's setTimeout.
toastRemoval(toasts, i) ==
  [toasts EXCEPT ![i].removals = @ - 1, ![i].attached = FALSE]

(***************************************************************************)
(* Modal                                                                   *)
(***************************************************************************)
ModalShow(m, modalId) ==
  [activeModal |-> modalId, shown |-> m.shown \cup {modalId}]

ModalHide(m, modalId) ==
  [activeModal |-> Null, shown |-> m.shown \ {modalId}]

(***************************************************************************)
(* The speech synthesizer and TTSManager.  A player state st is            *)
(* [T |-> TTSManager, S |-> synth, B |-> progressBar]: the handlers below  *)
(* map one to the next, so that a handler calling another composes them.   *)
(***************************************************************************)
MaxCancelled == 1

Progress(n, d) == [n |-> n, d |-> d]

\* (currentPosition / textLength) * 100, currentPosition in tenths.
progressOf(positionT, textLength) ==
  Progress(positionT * 100, textLength * Tenths)

\* speechSynthesis.cancel(): the queue is emptied; the paused state stays;
\* the removed utterance gets its end or error event later.
synthCancel(s) ==
  [s EXCEPT !.state = "idle",
            !.queued = 0,
            !.cancelled = IF s.state = "idle" THEN @
                          ELSE Min(@ + 1, MaxCancelled)]

\* speechSynthesis.speak(utterance): the utterance joins the queue; it is the
\* next to be spoken if the queue was empty.
synthSpeak(s) ==
  [s EXCEPT !.state = IF @ = "idle" THEN "pending" ELSE @,
            !.queued = @ + 1]

\* The utterance being spoken leaves the queue, by its end or by an error.
synthNext(s) ==
  [s EXCEPT !.state = IF s.queued > 1 THEN "pending" ELSE "idle",
            !.queued = Max(@ - 1, 0)]

\* TTSManager.updateProgress
updateProgressBar(st, progress) == [st EXCEPT !.B = progress]

\* loadText without the reset of currentPosition.
loadTextKeepsPosition(t, text) == [t EXCEPT !.textLength = Len(text)]

\* TTSManager.loadText
loadText(t, text) ==
  [t EXCEPT !.textLength = Len(text), !.currentPosition = 0]

\* speak without the cancel of what is queued.
speakWithoutCancel(st, text, offset) ==
  [st EXCEPT !.S = synthSpeak(st.S),
             !.T.utterance = <<[text |-> text, offset |-> offset,
                                charIndex |-> -1,
                                rate |-> st.T.playbackRate]>>]

\* TTSManager.speak(text): offset is not a field of the utterance; it
\* records the character of the extracted text at which the caller sliced.
speak(st, text, offset) ==
  [st EXCEPT !.S = synthSpeak(synthCancel(st.S)),
             !.T.utterance = <<[text |-> text, offset |-> offset,
                                charIndex |-> -1,
                                rate |-> st.T.playbackRate]>>]

\* TTSManager.pause
pause(st) ==
  [st EXCEPT !.S.paused = TRUE, !.T.isPlaying = FALSE]

\* TTSManager.resume
resume(st) ==
  [st EXCEPT !.S.paused = FALSE, !.T.isPlaying = TRUE]

\* TTSManager.stop
stop(st) ==
  updateProgressBar(
    [st EXCEPT !.S = synthCancel(st.S), !.T.isPlaying = FALSE,
               !.T.currentPosition = 0],
    Progress(0, 1))

\* text.slice(currentPosition): slice truncates a fractional offset.
sliceAtPosition(text, positionT) == SliceFrom(text, positionT \div Tenths)

\* TTSManager.togglePlayPause
togglePlayPause(st, extractedText) ==
  IF st.T.isPlaying THEN pause(st)
  ELSE IF st.S.paused THEN resume(st)
  ELSE IF extractedText # <<>>
       THEN speak(st, sliceAtPosition(extractedText, st.T.currentPosition),
                  st.T.currentPosition \div Tenths)
       ELSE st

\* TTSManager.setPosition, the position in tenths of a character.
setPosition(st, positionT) ==
  LET pos == Max(0, Min(positionT, st.T.textLength * Tenths))
  IN  updateProgressBar([st EXCEPT !.T.currentPosition = pos],
                        progressOf(pos, st.T.textLength))

\* TTSManager.seek: charCount = textLength * (amount / 100), in tenths.
seek(st, amount) ==
  setPosition(st, st.T.currentPosition
                    + (st.T.textLength * amount * Tenths) \div 100)

\* TTSManager.setPlaybackRate: stop() has reset currentPosition before the
\* text is sliced.
setPlaybackRate(st, extractedText, rate) ==
  LET rated == [st EXCEPT !.T.playbackRate = rate,
                          !.T.utterance =
                             IF @ = <<>> THEN @
                             ELSE <<[@[1] EXCEPT !.rate = rate]>>]
  IN  IF rated.T.isPlaying /\ extractedText # <<>>
      THEN LET stopped == stop(rated)
           IN  speak(stopped,
                     sliceAtPosition(extractedText, stopped.T.currentPosition),
                     stopped.T.currentPosition \div Tenths)
      ELSE rated

\* utterance.onboundary for a word or sentence event at charIndex.
onboundary(st, charIndex) ==
  updateProgressBar(
    [st EXCEPT !.T.currentPosition = charIndex * Tenths,
               !.T.utterance = <<[st.T.utterance[1] EXCEPT
                                    !.charIndex = charIndex]>>],
    progressOf(charIndex * Tenths, st.T.textLength))

\* utterance.onstart
onstart(st) == [st EXCEPT !.T.isPlaying = TRUE]

\* utterance.onend
onend(st) ==
  updateProgressBar([st EXCEPT !.T.isPlaying = FALSE], Progress(100, 1))

\* utterance.onerror
onerror(st) == [st EXCEPT !.T.isPlaying = FALSE]

(***************************************************************************)
(* PDFHandler                                                              *)
(***************************************************************************)
\* getPositionAtProgress with Math.round in place of Math.floor.
getPositionAtProgressRounded(extractedText, progress) ==
  (progress * Len(extractedText) + 50) \div 100

\* PDFHandler.getPositionAtProgress, in characters.
getPositionAtProgress(extractedText, progress) ==
  (progress * Len(extractedText)) \div 100

\* One entry of PDFHandler.pages; sentences is splitIntoSentences(text), a
\* function of text, and is not kept.
PageEntry(n, text) == [page |-> n, text |-> text]

\* The page texts collected in the order in which the extractions completed.
PromiseAllByCompletion(doc, resolved) ==
  [i \in 1..Len(resolved) |-> doc.pages[resolved[i]]]

\* await Promise.all(pagePromises): the texts in the order of the promises,
\* whatever the order (resolved) in which they completed.
PromiseAll(doc, resolved) ==
  [i \in 1..Len(resolved) |-> doc.pages[i]]

\* The loop of PDFHandler.extractText over pageTexts, startPage = 1: it
\* appends to the pages and the extractedText the object holds by then.
extractLoop(h, pageTexts) ==
  [h EXCEPT !.pages = @ \o [i \in 1..Len(pageTexts) |->
                              PageEntry(i, pageTexts[i])],
            !.extractedText = @ \o JoinPages(pageTexts)]

\* PDFHandler.loadFromLibrary: the fields it sets before the player opens.
loadFromLibraryFields(h, fileData) ==
  LET pageTexts == SplitBlankLines(fileData.text)
      pages == [i \in 1..Len(pageTexts) |-> PageEntry(i, Trim(pageTexts[i]))]
  IN  [h EXCEPT !.currentFile = fileData.name,
                !.extractedText = fileData.text,
                !.pages = pages,
                !.totalPages = Len(pages)]

(***************************************************************************)
(* Initial state: the page as loaded, nothing stored.                      *)
(***************************************************************************)
IdleProc == [pc |-> "idle", file |-> <<>>, canAdd |-> FALSE, resolved |-> <<>>]

Event(op, arg, ret) == [op |-> op, arg |-> arg, ret |-> ret]

\* App.loadDemoPDF's demoText, shortened: it starts and ends with white space.
DemoText == <<NL, SP, "w", SP, "d", NL, SP>>

\* The page as loaded with this library and these users in localStorage.
InitWith(lib, users) ==
  /\ library = lib
  /\ premium = FALSE
  /\ AuthManager = [users |-> users, currentUser |-> <<>>]
  /\ Toast = <<>>
  /\ nextId = Len(lib) + Len(users) + 1
  /\ PDFHandler = [pdfDoc |-> <<>>, currentFile |-> Null, extractedText |-> <<>>,
                   pages |-> <<>>, totalPages |-> 0]
  /\ TTSManager = [currentPosition |-> 0, textLength |-> 0, isPlaying |-> FALSE,
                   playbackRate |-> 1, utterance |-> <<>>]
  /\ synth = [state |-> "idle", paused |-> FALSE, cancelled |-> 0,
              queued |-> 0]
  /\ progressBar = Progress(0, 1)
  /\ Modal = [activeModal |-> Null, shown |-> {}]
  /\ procs = [p \in Procs |-> IdleProc]
  /\ lastEvent = Event("init", 0, "")

\* A first visit: nothing is stored.
Init == InitWith(<<>>, <<>>)

\* localStorage outlives the page: the library that k uploads of FileA in
\* earlier visits have left, the newest item first.
SavedLibrary(k) ==
  [i \in 1..k |->
     createFileData(k + 1 - i, FileA, cleanText(JoinPages(FileA.pages)))]

\* The account an earlier visit has registered.
SavedUser(id) ==
  [id |-> id, name |-> <<"n">>, email |-> <<"a">>,
   password |-> hashPassword(<<"p">>), isPremium |-> FALSE,
   premiumExpiresAt |-> Null]

InitReturning ==
  \E k \in 0..MaxInitItems : InitWith(SavedLibrary(k), <<SavedUser(k + 1)>>)

Player == [T |-> TTSManager, S |-> synth, B |-> progressBar]

SetPlayer(st) ==
  /\ TTSManager' = st.T
  /\ synth' = st.S
  /\ progressBar' = st.B

(***************************************************************************)
(* App.processFile.  It suspends at `await PDFHandler.loadPDF(file)` and   *)
(* at `await PDFHandler.extractText({})`; other handlers, a second         *)
(* processFile among them, run in between.                                 *)
(***************************************************************************)
\* processFile up to the first await inside loadPDF.
ProcessFileStart(p, file) ==
  /\ procs[p].pc = "idle"
  /\ UNCHANGED <<library, premium, AuthManager, Toast, nextId, TTSManager, synth,
                 progressBar>>
  /\ IF ~isPDFFile(file)
     THEN /\ lastEvent' = Event("processFile", p, "not a PDF")
          /\ UNCHANGED <<PDFHandler, Modal, procs>>
     ELSE IF ~canAddFile.canAdd /\ ~isLoggedIn
     THEN /\ Modal' = ModalShow(Modal, "login")
          /\ lastEvent' = Event("processFile", p, "log in")
          /\ UNCHANGED <<PDFHandler, procs>>
     ELSE IF ~canAddFile.canAdd /\ ~isPremium
     THEN /\ lastEvent' = Event("processFile", p, "limit")
          /\ UNCHANGED <<PDFHandler, Modal, procs>>
     ELSE /\ PDFHandler' = [PDFHandler EXCEPT !.currentFile = file.name]
          /\ procs' = [procs EXCEPT ![p] =
                         [pc |-> "loading", file |-> <<file>>,
                          canAdd |-> canAddFile.canAdd, resolved |-> <<>>]]
          /\ lastEvent' = Event("processFile", p, "loading")
          /\ UNCHANGED Modal

\* getDocument resolves: loadPDF stores the document and returns, and
\* processFile runs on into extractText, which empties extractedText and
\* pages and starts one extractPageText per page of the stored document.
LoadResolve(p) ==
  /\ procs[p].pc = "loading"
  /\ procs[p].file[1].valid
  /\ LET file == procs[p].file[1]
     IN  /\ PDFHandler' = [PDFHandler EXCEPT !.pdfDoc = <<file.name>>,
                                             !.totalPages = Len(file.pages),
                                             !.extractedText = <<>>,
                                             !.pages = <<>>]
         /\ procs' = [procs EXCEPT ![p].pc = "extracting"]
  /\ lastEvent' = Event("loadPDF", p, "resolved")
  /\ UNCHANGED <<library, premium, AuthManager, Toast, nextId, TTSManager, synth,
                 progressBar, Modal>>

\* getDocument rejects: processFile's catch reports the error.
LoadReject(p) ==
  /\ procs[p].pc = "loading"
  /\ ~procs[p].file[1].valid
  /\ procs' = [procs EXCEPT ![p] = IdleProc]
  /\ lastEvent' = Event("processFile", p, "error")
  /\ UNCHANGED <<library, premium, AuthManager, Toast, nextId, PDFHandler, TTSManager,
                 synth, progressBar, Modal>>

\* One of the page extractions started by extractText completes.
PageResolve(p, i) ==
  /\ procs[p].pc = "extracting"
  /\ i \in 1..Len(procs[p].file[1].pages)
  /\ i # procs[p].file[1].failPage
  /\ \A k \in 1..Len(procs[p].resolved) : procs[p].resolved[k] # i
  /\ procs' = [procs EXCEPT ![p].resolved = Append(@, i)]
  /\ lastEvent' = Event("extractPageText", i, "resolved")
  /\ UNCHANGED <<library, premium, AuthManager, Toast, nextId, PDFHandler, TTSManager,
                 synth, progressBar, Modal>>

\* A page extraction rejects: Promise.all rejects, extractText throws and
\* processFile's catch reports the error.
PageReject(p) ==
  /\ procs[p].pc = "extracting"
  /\ procs[p].file[1].failPage # 0
  /\ procs' = [procs EXCEPT ![p] = IdleProc]
  /\ lastEvent' = Event("processFile", p, "error")
  /\ UNCHANGED <<library, premium, AuthManager, Toast, nextId, PDFHandler, TTSManager,
                 synth, progressBar, Modal>>

\* Promise.all resolves: extractText's loop fills pages and extractedText and
\* returns extractedText; processFile cleans it, saves it if the check made
\* before the awaits (or the premium flag now) allows, and loads the player.
\* stored: whether localStorage accepts the write.
ExtractFinish(p, stored) ==
  /\ procs[p].pc = "extracting"
  /\ Len(procs[p].resolved) = Len(procs[p].file[1].pages)
  /\ LET file == procs[p].file[1]
         h == extractLoop(PDFHandler, PromiseAll(file, procs[p].resolved))
         text == h.extractedText
         cleanedText == cleanText(text)
     IN  /\ PDFHandler' = h
         /\ IF procs[p].canAdd \/ isPremium
            THEN /\ nextId <= MaxIds
                 /\ library' = storageSet(library,
                        addFile(library, createFileData(nextId, file, cleanedText)),
                        stored)
                 /\ nextId' = nextId + 1
            ELSE /\ stored
                 /\ UNCHANGED <<library, nextId>>
         /\ TTSManager' = loadText(TTSManager, cleanedText)
         /\ Modal' = ModalShow(Modal, "player")
  /\ procs' = [procs EXCEPT ![p] = IdleProc]
  /\ lastEvent' = [op |-> "processFile", arg |-> p, ret |-> "loaded",
                   name |-> procs[p].file[1].name,
                   resolved |-> procs[p].resolved]
  /\ UNCHANGED <<premium, AuthManager, Toast, synth, progressBar>>

\* App.loadDemoPDF
LoadDemo ==
  /\ PDFHandler' = [PDFHandler EXCEPT !.extractedText = DemoText,
                                      !.pages = <<PageEntry(1, DemoText)>>,
                                      !.totalPages = 1]
  /\ TTSManager' = loadText(TTSManager, DemoText)
  /\ Modal' = ModalShow(Modal, "player")
  /\ lastEvent' = Event("loadDemoPDF", 0, "")
  /\ UNCHANGED <<library, premium, AuthManager, Toast, nextId, synth, progressBar, procs>>

\* PDFHandler.loadFromLibrary(fileData)
LoadFromLibrary(fileData) ==
  /\ PDFHandler' = loadFromLibraryFields(PDFHandler, fileData)
  /\ Modal' = ModalShow(Modal, "player")
  /\ LET loaded == [Player EXCEPT !.T = loadText(TTSManager, fileData.text)]
     IN  IF fileData.progress > 0
         THEN SetPlayer(setPosition(loaded,
                 getPositionAtProgress(fileData.text, fileData.progress)
                   * Tenths))
         ELSE SetPlayer(loaded)
  /\ lastEvent' = Event("loadFromLibrary", fileData.id, "")
  /\ UNCHANGED <<library, premium, AuthManager, Toast, nextId, procs>>

\* The play button of a library item (LibraryManager.renderLibrary).
LibraryPlay(id) ==
  /\ getFile(library, id) # <<>>
  /\ LoadFromLibrary(getFile(library, id)[1])

\* LibraryManager.addFile(fileData): it returns true whatever the write did.
AddFile(fileData, stored) ==
  /\ library' = storageSet(library, addFile(library, fileData), stored)
  /\ lastEvent' = [op |-> "addFile", arg |-> fileData.id, ret |-> "true",
                   fileData |-> fileData]
  /\ UNCHANGED <<premium, AuthManager, Toast, nextId, PDFHandler, TTSManager,
                 synth, progressBar, Modal, procs>>

\* LibraryManager.removeFile(id); the delete button calls it for a listed item.
RemoveFile(id, stored) ==
  /\ LET filtered == removeFile(library, id)
     IN  IF Len(filtered) # Len(library)
         THEN /\ library' = storageSet(library, filtered, stored)
              /\ lastEvent' = Event("removeFile", id, "true")
         ELSE /\ stored
              /\ UNCHANGED library
              /\ lastEvent' = Event("removeFile", id, "false")
  /\ UNCHANGED <<premium, AuthManager, Toast, nextId, PDFHandler, TTSManager, synth,
                 progressBar, Modal, procs>>

\* LibraryManager.addBookmark(id, bookmark)
AddBookmark(id, bookmark, stored) ==
  /\ IF getFile(library, id) = <<>>
     THEN /\ stored
          /\ lastEvent' = Event("addBookmark", id, "false")
          /\ UNCHANGED <<library, nextId>>
     ELSE IF bookmarkRejected(getFile(library, id)[1])
     THEN /\ stored
          /\ lastEvent' = Event("addBookmark", id, "false")
          /\ UNCHANGED <<library, nextId>>
     ELSE /\ nextId <= MaxIds
          /\ library' = storageSet(library,
                          addBookmark(library, id, nextId, bookmark), stored)
          /\ nextId' = nextId + 1
          /\ lastEvent' = Event("addBookmark", id, "true")
  /\ UNCHANGED <<premium, AuthManager, Toast, PDFHandler, TTSManager, synth,
                 progressBar, Modal, procs>>

\* LibraryManager.updateProgress(id, progress)
UpdateProgress(id, progress, stored) ==
  /\ IF getFile(library, id) = <<>>
     THEN stored /\ UNCHANGED library
     ELSE library' = storageSet(library, updateProgress(library, id, progress),
                                stored)
  /\ lastEvent' = Event("updateProgress", id, "")
  /\ UNCHANGED <<premium, AuthManager, Toast, nextId, PDFHandler, TTSManager, synth,
                 progressBar, Modal, procs>>

\* The bookmark button of the player (App.setupPlayer).
BookmarkButton(stored) ==
  IF ~isLoggedIn
  THEN /\ stored
       /\ Modal' = ModalShow(Modal, "login")
       /\ lastEvent' = Event("bookmark", 0, "log in")
       /\ UNCHANGED <<library, premium, AuthManager, Toast, nextId, PDFHandler,
                      TTSManager, synth, progressBar, procs>>
  ELSE IF library = <<>>
  THEN /\ stored
       /\ lastEvent' = Event("bookmark", 0, "no item")
       /\ UNCHANGED <<library, premium, AuthManager, Toast, nextId, PDFHandler,
                      TTSManager, synth, progressBar, Modal, procs>>
  ELSE AddBookmark(library[1].id,
                   [position |-> TTSManager.currentPosition,
                    text |-> Slice(PDFHandler.extractedText,
                                   TTSManager.currentPosition \div Tenths,
                                   (TTSManager.currentPosition
                                      + SNIPPET_LEN * Tenths) \div Tenths)],
                   stored)

(***************************************************************************)
(* The player's controls (App.setupPlayer).                                *)
(***************************************************************************)
\* Handlers that touch only TTSManager, the synthesizer and the progress bar.
PlayerStep(st, op, arg) ==
  /\ SetPlayer(st)
  /\ lastEvent' = Event(op, arg, "")
  /\ UNCHANGED <<library, premium, AuthManager, Toast, nextId, PDFHandler, Modal, procs>>

TogglePlayPause ==
  PlayerStep(togglePlayPause(Player, PDFHandler.extractedText),
             "togglePlayPause", 0)

\* The rewind and forward buttons: seek(-10), seek(10).
Seek(amount) == PlayerStep(seek(Player, amount), "seek", 0)

\* The progress bar's input event.
ProgressInput(progress) ==
  PlayerStep(setPosition(Player,
               getPositionAtProgress(PDFHandler.extractedText, progress)
                 * Tenths),
             "progressInput", 0)

\* The progress bar's change event.
ProgressChange ==
  PlayerStep(IF PDFHandler.extractedText # <<>>
             THEN speak(Player,
                        sliceAtPosition(PDFHandler.extractedText,
                                        TTSManager.currentPosition),
                        TTSManager.currentPosition \div Tenths)
             ELSE Player,
             "progressChange", 0)

\* The speed select's change event.
SetPlaybackRate(rate) ==
  PlayerStep(setPlaybackRate(Player, PDFHandler.extractedText, rate),
             "setPlaybackRate", 0)

\* The close button of the player.
ClosePlayer ==
  /\ SetPlayer(stop(Player))
  /\ Modal' = ModalHide(Modal, "player")
  /\ lastEvent' = Event("closePlayer", 0, "")
  /\ UNCHANGED <<library, premium, AuthManager, Toast, nextId, PDFHandler, procs>>

(***************************************************************************)
(* The events the synthesizer delivers to the utterance's handlers.        *)
(***************************************************************************)
\* The offsets of an utterance text at which a word begins.
WordStarts(text) ==
  {c \in 0..(Len(text) - 1) :
     /\ ~IsSpace(text[c + 1])
     /\ (c = 0 \/ IsSpace(text[c]))}

UttStart ==
  /\ synth.state = "pending"
  /\ ~synth.paused
  /\ PlayerStep([onstart(Player) EXCEPT !.S.state = "speaking"], "onstart", 0)

UttBoundary(charIndex) ==
  /\ synth.state = "speaking"
  /\ ~synth.paused
  /\ charIndex \in WordStarts(TTSManager.utterance[1].text)
  /\ charIndex > TTSManager.utterance[1].charIndex
  /\ PlayerStep(onboundary(Player, charIndex), "onboundary", 0)

UttEnd ==
  /\ synth.state = "speaking"
  /\ ~synth.paused
  /\ PlayerStep([onend(Player) EXCEPT !.S = synthNext(@)], "onend", 0)

UttError ==
  /\ synth.state # "idle"
  /\ PlayerStep([onerror(Player) EXCEPT !.S = synthNext(@)], "onerror", 0)

\* The end or error event of an utterance that cancel() removed.
CancelledEvent(asError) ==
  /\ synth.cancelled > 0
  /\ PlayerStep([(IF asError THEN onerror(Player) ELSE onend(Player))
                   EXCEPT !.S.cancelled = @ - 1],
                "cancelled", 0)

(***************************************************************************)
(* The account and the premium flag.                                       *)
(***************************************************************************)
\* The signup form: AuthManager.register(name, email, password).
Register(name, email, password, okUsers, okCurrent) ==
  /\ nextId <= MaxIds
  /\ Len(AuthManager.users) < MaxUsers
  /\ LET r == register(AuthManager, nextId, name, email, password,
                       okUsers, okCurrent)
     IN  /\ AuthManager' = r.auth
         /\ nextId' = IF r.ret = "success" THEN nextId + 1 ELSE nextId
         /\ Modal' = IF r.ret = "success" THEN ModalHide(Modal, "signup")
                     ELSE Modal
         /\ lastEvent' = [op |-> "register", arg |-> 0, ret |-> r.ret,
                          email |-> email, password |-> password]
  /\ UNCHANGED <<library, premium, Toast, PDFHandler, TTSManager, synth,
                 progressBar, procs>>

\* The login form: AuthManager.login(email, password), and on success
\* Modal.hide('login').
Login(email, password, ok) ==
  /\ LET r == login(AuthManager, email, password, ok)
     IN  /\ AuthManager' = r.auth
         /\ Modal' = IF r.ret = "success" THEN ModalHide(Modal, "login")
                     ELSE Modal
         /\ lastEvent' = [op |-> "login", arg |-> 0, ret |-> r.ret,
                          email |-> email, password |-> password]
  /\ UNCHANGED <<library, premium, Toast, nextId, PDFHandler, TTSManager,
                 synth, progressBar, procs>>

\* The login button of a logged-in user: AuthManager.logout().
Logout ==
  /\ isLoggedIn
  /\ AuthManager' = logout(AuthManager)
  /\ lastEvent' = Event("logout", 0, "")
  /\ UNCHANGED <<library, premium, Toast, nextId, PDFHandler, TTSManager,
                 synth, progressBar, Modal, procs>>

\* AuthManager.updatePremiumStatus(isPremium, expiresAt)
UpdatePremiumStatus(premiumStatus, expiresAt, okCurrent, okUsers) ==
  /\ AuthManager' = updatePremiumStatus(AuthManager, premiumStatus, expiresAt,
                                        okCurrent, okUsers)
  /\ lastEvent' = Event("updatePremiumStatus", 0, "")
  /\ UNCHANGED <<library, premium, Toast, nextId, PDFHandler, TTSManager,
                 synth, progressBar, Modal, procs>>

SetPremium(b) ==
  /\ premium # b
  /\ premium' = b
  /\ lastEvent' = Event("premium", 0, "")
  /\ UNCHANGED <<library, AuthManager, Toast, nextId, PDFHandler, TTSManager,
                 synth, progressBar, Modal, procs>>

(***************************************************************************)
(* Toasts: any handler shows one; the user closes it; its timers fire.     *)
(***************************************************************************)
ToastShow ==
  /\ Len(Toast) < MaxToasts
  /\ Toast' = toastShow(Toast)
  /\ lastEvent' = Event("Toast.show", Len(Toast) + 1, "")
  /\ UNCHANGED <<library, premium, AuthManager, nextId, PDFHandler,
                 TTSManager, synth, progressBar, Modal, procs>>

\* A click on the toast's close button, which is in the page with the toast.
ToastClose(i) ==
  /\ i \in 1..Len(Toast)
  /\ Toast[i].attached
  /\ Toast[i].removals < MaxClicks
  /\ Toast' = toastRemove(Toast, i)
  /\ lastEvent' = Event("Toast.close", i, "")
  /\ UNCHANGED <<library, premium, AuthManager, nextId, PDFHandler,
                 TTSManager, synth, progressBar, Modal, procs>>

\* The duration timer of Toast.show fires.
ToastTimer(i) ==
  /\ i \in 1..Len(Toast)
  /\ Toast[i].timer
  /\ Toast' = toastRemove([Toast EXCEPT ![i].timer = FALSE], i)
  /\ lastEvent' = Event("Toast.timer", i, "")
  /\ UNCHANGED <<library, premium, AuthManager, nextId, PDFHandler,
                 TTSManager, synth, progressBar, Modal, procs>>

\* A removal timer of Toast.remove fires.
ToastRemoval(i) ==
  /\ i \in 1..Len(Toast)
  /\ Toast[i].removals > 0
  /\ Toast' = toastRemoval(Toast, i)
  /\ lastEvent' = Event("Toast.removal", i, "")
  /\ UNCHANGED <<library, premium, AuthManager, nextId, PDFHandler,
                 TTSManager, synth, progressBar, Modal, procs>>

(***************************************************************************)
(* Specifications.  Spec is the whole client.  The others are the client   *)
(* restricted to the handlers and inputs a group of properties is about.   *)
(***************************************************************************)
ProgressInputs == {0, 50, 100}
PlaybackRates == {1, 2}
ProgressValues == {0, 33, 50, 100}

NoProcBusy == \A p \in Procs : procs[p].pc = "idle"

Upload(files, writes) ==
  \E p \in Procs :
    \/ \E file \in files : ProcessFileStart(p, file)
    \/ LoadResolve(p)
    \/ LoadReject(p)
    \/ \E i \in 1..2 : PageResolve(p, i)
    \/ PageReject(p)
    \/ \E stored \in writes : ExtractFinish(p, stored)

\* The file data addFile is called with.
FileDatas ==
  {createFileData(id, file, cleanText(JoinPages(file.pages))) :
     id \in 1..MaxFileIds, file \in {FileA, FileB}}

\* The passwords of up to MaxPasswordLen characters.
Passwords ==
  UNION {[1..n -> {"p", "q"}] : n \in 1..MaxPasswordLen}

Emails == {<<"a">>, <<"A">>, <<SP, "a">>, <<"b">>}
Names == {<<"n">>}
Expiries == {Null, "2030"}

Auth(passwords, writes) ==
  \/ \E name \in Names, email \in Emails, password \in passwords,
        okUsers \in writes, okCurrent \in writes :
       Register(name, email, password, okUsers, okCurrent)
  \/ \E email \in Emails, password \in passwords, ok \in writes :
       Login(email, password, ok)
  \/ Logout
  \/ \E premiumStatus \in BOOLEAN, expiresAt \in Expiries,
        okCurrent \in writes, okUsers \in writes :
       UpdatePremiumStatus(premiumStatus, expiresAt, okCurrent, okUsers)

\* Modal.hideAll: every modal loses the class 'active'.
ModalHideAll(m) == [activeModal |-> Null, shown |-> {}]

\* document.body.style.overflow is 'hidden' after show and '' after hide and
\* hideAll: the page scrolls exactly when activeModal is null.
scrollEnabled(m) == m.activeModal = Null

\* The modals of the page.
ModalIds == {"player", "login", "signup", "library"}

ModalCall(m, op, modalId) ==
  /\ Modal' = m
  /\ lastEvent' = Event(op, 0, modalId)
  /\ UNCHANGED <<library, premium, AuthManager, Toast, nextId, PDFHandler,
                 TTSManager, synth, progressBar, procs>>

ShowModal(modalId) == ModalCall(ModalShow(Modal, modalId), "show", modalId)

HideModal(modalId) == ModalCall(ModalHide(Modal, modalId), "hide", modalId)

\* The overlay, the Escape key and the close buttons (Modal.init).
HideAllModals == ModalCall(ModalHideAll(Modal), "hideAll", Null)

Toasts ==
  \/ ToastShow
  \/ \E i \in 1..MaxToasts :
       \/ ToastClose(i)
       \/ ToastTimer(i)
       \/ ToastRemoval(i)

Playback ==
  \/ TogglePlayPause
  \/ \E amount \in {-SEEK_STEP, SEEK_STEP} : Seek(amount)
  \/ \E progress \in ProgressInputs : ProgressInput(progress)
  \/ ProgressChange
  \/ ClosePlayer
  \/ UttStart
  \/ \E c \in 0..Len(PDFHandler.extractedText) : UttBoundary(c)
  \/ UttEnd
  \/ UttError
  \/ \E asError \in BOOLEAN : CancelledEvent(asError)

Next ==
  \/ Upload(AllFiles, BOOLEAN)
  \/ Playback
  \/ \E rate \in PlaybackRates : SetPlaybackRate(rate)
  \/ LoadDemo
  \/ \E id \in 1..MaxIds : LibraryPlay(id)
  \/ \E id \in 1..MaxIds, stored \in BOOLEAN : RemoveFile(id, stored)
  \/ \E fileData \in FileDatas, stored \in BOOLEAN : AddFile(fileData, stored)
  \/ \E stored \in BOOLEAN : BookmarkButton(stored)
  \/ Auth(Passwords, BOOLEAN)
  \/ \E b \in BOOLEAN : SetPremium(b)
  \/ Toasts
  \/ \E modalId \in ModalIds : ShowModal(modalId) \/ HideModal(modalId)
  \/ HideAllModals

Spec == Init /\ [][Next]_vars

\* A user who is never premium uploads and deletes, one upload at a time.
NextSeq ==
  \/ NoProcBusy /\ \E file \in {FileA, FileTxt, FileBad, FileP} :
                     ProcessFileStart(1, file)
  \/ LoadResolve(1)
  \/ LoadReject(1)
  \/ \E i \in 1..2 : PageResolve(1, i)
  \/ PageReject(1)
  \/ \E stored \in BOOLEAN : ExtractFinish(1, stored)
  \/ NoProcBusy /\ \E id \in 1..MaxIds, stored \in BOOLEAN : RemoveFile(id, stored)
  \/ NoProcBusy /\ Login(<<"a">>, <<"p">>, TRUE)
  \/ NoProcBusy /\ Logout

SpecSeq == InitReturning /\ [][NextSeq]_vars

\* Uploads that overlap: a second file is chosen while the first is loading.
NextRace ==
  \/ \E p \in Procs :
       \/ \E file \in {FileA, FileB} : ProcessFileStart(p, file)
       \/ LoadResolve(p)
       \/ \E i \in 1..2 : PageResolve(p, i)
       \/ ExtractFinish(p, TRUE)

SpecRace == InitReturning /\ [][NextRace]_vars

\* addBookmark called with any identifier, by a free or a premium user.
BookmarkArgs == {[position |-> 0, text |-> <<"a">>]}

NextBookmark ==
  \/ \E id \in 1..MaxIds, bookmark \in BookmarkArgs, stored \in BOOLEAN :
       AddBookmark(id, bookmark, stored)
  \/ \E b \in BOOLEAN : SetPremium(b)

SpecBookmark == InitReturning /\ [][NextBookmark]_vars

\* Documents are uploaded one at a time, their progress is stored, and they
\* are opened again from the library.
NextResume ==
  \/ /\ NoProcBusy
     /\ Len(library) < MaxApiItems
     /\ \E file \in {FileA, FileB, FileE} : ProcessFileStart(1, file)
  \/ LoadResolve(1)
  \/ \E i \in 1..2 : PageResolve(1, i)
  \/ ExtractFinish(1, TRUE)
  \/ NoProcBusy /\ \E id \in 1..MaxIds, progress \in ProgressValues :
                     UpdateProgress(id, progress, TRUE)
  \/ NoProcBusy /\ \E id \in 1..MaxIds : LibraryPlay(id)

SpecResume == Init /\ [][NextResume]_vars

\* Documents are uploaded one at a time and played: the player's controls
\* and the synthesizer's events.
NextPlay ==
  \/ /\ NoProcBusy
     /\ Len(library) < MaxPlayItems
     /\ \E file \in {FileA, FileE} : ProcessFileStart(1, file)
  \/ LoadResolve(1)
  \/ \E i \in 1..2 : PageResolve(1, i)
  \/ ExtractFinish(1, TRUE)
  \/ Playback

SpecPlay == Init /\ [][NextPlay]_vars

\* One document is uploaded and played at either speed.
NextSpeak ==
  \/ /\ NoProcBusy
     /\ Len(library) < MaxSpeakItems
     /\ ProcessFileStart(1, FileA)
  \/ LoadResolve(1)
  \/ \E i \in 1..2 : PageResolve(1, i)
  \/ ExtractFinish(1, TRUE)
  \/ Playback
  \/ \E rate \in PlaybackRates : SetPlaybackRate(rate)

SpecSpeak == Init /\ [][NextSpeak]_vars

\* The account forms and updatePremiumStatus on a first visit.
NextAuth == Auth({<<"p">>, <<"q">>}, {TRUE})

SpecAuth == Init /\ [][NextAuth]_vars

\* A registered user logs in and out and changes the premium status, with
\* storage writes that succeed or fail.
NextAuthQuota ==
  \/ \E email \in Emails, password \in {<<"p">>, <<"q">>}, ok \in BOOLEAN :
       Login(email, password, ok)
  \/ Logout
  \/ \E premiumStatus \in BOOLEAN, expiresAt \in Expiries,
        okCurrent \in BOOLEAN, okUsers \in BOOLEAN :
       UpdatePremiumStatus(premiumStatus, expiresAt, okCurrent, okUsers)

SpecAuthQuota == InitReturning /\ [][NextAuthQuota]_vars

\* LibraryManager.addFile and removeFile called with any identifier, with
\* storage writes that succeed or fail.
NextLibrary ==
  \/ \E fileData \in FileDatas, stored \in BOOLEAN : AddFile(fileData, stored)
  \/ \E id \in 1..MaxFileIds, stored \in BOOLEAN : RemoveFile(id, stored)

SpecLibrary == Init /\ [][NextLibrary]_vars

\* Toasts alone.  A timer that is pending fires: the page stays open.
NextToast == Toasts

SpecToast ==
  /\ Init
  /\ [][NextToast]_vars
  /\ \A i \in 1..MaxToasts :
       WF_vars(ToastTimer(i)) /\ WF_vars(ToastRemoval(i))

(***************************************************************************)
(* Properties.                                                             *)
(***************************************************************************)
FileNamed(name) == CHOOSE f \in AllFiles : f.name = name

\* The pages 1..n of a file, each followed by a blank line.
RECURSIVE PagesUpTo(_, _)
PagesUpTo(file, n) ==
  IF n = 0 THEN <<>>
  ELSE PagesUpTo(file, n - 1) \o file.pages[n] \o <<NL, NL>>

RawText(file) == PagesUpTo(file, Len(file.pages))

Loaded == lastEvent.op = "processFile" /\ lastEvent.ret = "loaded"

\* C1: a user who is never premium and whose uploads run one after the
\* other never has more than MAX_FREE_ITEMS items in the stored library.
C1_FreeLibraryWithinLimit == ~premium => Len(library) <= MAX_FREE_ITEMS

\* C1 witness: an upload has just filled the library to the limit.
C1_LibraryFilled == Loaded /\ ~premium /\ Len(library) = MAX_FREE_ITEMS

\* C2: every value written to the progress bar is a number within 0..100.
C2_ProgressInRange ==
  /\ progressBar.d > 0
  /\ 0 <= progressBar.n
  /\ progressBar.n <= 100 * progressBar.d

\* C3: after a boundary event at charIndex c of an utterance sliced at
\* offset p, currentPosition is the absolute offset p + c.
C3_BoundaryIsAbsolute ==
  lastEvent.op = "onboundary" =>
    TTSManager.currentPosition =
      (TTSManager.utterance[1].offset + TTSManager.utterance[1].charIndex)
        * Tenths

C4_LoadStep ==
  (lastEvent'.op = "processFile" /\ lastEvent'.ret = "loaded") =>
    /\ TTSManager'.currentPosition = 0
    /\ TTSManager'.textLength = Len(cleanText(PDFHandler'.extractedText))
    /\ "player" \in Modal'.shown
    /\ synth' = synth
    /\ TTSManager'.utterance = TTSManager.utterance

C5_PagesInOrder ==
  Loaded =>
    LET file == FileNamed(lastEvent.name)
    IN  /\ PDFHandler.extractedText = RawText(file)
        /\ Len(PDFHandler.pages) = Len(file.pages)
        /\ \A i \in 1..Len(file.pages) :
             /\ PDFHandler.pages[i].page = i
             /\ PDFHandler.pages[i].text = file.pages[i]

\* C5 witness: the second page was extracted before the first.
C5_CompletedOutOfOrder == Loaded /\ lastEvent.resolved = <<2, 1>>

\* C6: with overlapping uploads every library item holds the text of the
\* file it is named after, and once all uploads are done the loaded
\* document is one file's text with that file's length.
C6_OverlapKeepsFilesApart ==
  /\ \A i \in 1..Len(library) :
       library[i].text = cleanText(RawText(FileNamed(library[i].name)))
  /\ (Loaded /\ NoProcBusy) =>
       \E f \in AllFiles :
         /\ PDFHandler.extractedText = RawText(f)
         /\ TTSManager.textLength = Len(cleanText(RawText(f)))

\* C7: with overlapping uploads too, once all have finished a user who is
\* not premium has at most MAX_FREE_ITEMS items.
C7_OverlapWithinLimit ==
  (NoProcBusy /\ ~premium) => Len(library) <= MAX_FREE_ITEMS

\* C8: addBookmark returns false and changes nothing for an unknown id and
\* for a free user's item with 3 or more bookmarks; otherwise it returns
\* true and appends exactly one bookmark to that item and changes no other.
C8_AddBookmarkStep ==
  lastEvent'.op = "addBookmark" =>
    LET i == findIndex(library, lastEvent'.arg)
    IN  IF i = 0 \/ (~premium /\ Len(library[i].bookmarks) >= MAX_FREE_BOOKMARKS)
        THEN lastEvent'.ret = "false" /\ library' = library
        ELSE /\ lastEvent'.ret = "true"
             /\ Len(library') = Len(library)
             /\ \A j \in 1..Len(library) : j # i => library'[j] = library[j]
             /\ library'[i] =
                  [library[i] EXCEPT !.bookmarks = library'[i].bookmarks]
             /\ Len(library'[i].bookmarks) = Len(library[i].bookmarks) + 1
             /\ SubSeq(library'[i].bookmarks, 1, Len(library[i].bookmarks))
                  = library[i].bookmarks

C8_AddBookmarkContract == [][C8_AddBookmarkStep]_vars

\* C9: a document opened from the library has as many pages, numbered in
\* the same order, as its extraction produced.
C9_ReloadKeepsPages ==
  lastEvent.op = "loadFromLibrary" =>
    /\ Len(PDFHandler.pages) = Len(FileNamed(PDFHandler.currentFile).pages)
    /\ \A i \in 1..Len(PDFHandler.pages) : PDFHandler.pages[i].page = i

\* C10: loadFromLibrary leaves currentPosition at floor(p / 100 x length of
\* the cached text) for an item with stored progress p > 0, at 0 for
\* progress 0, and in both cases within 0..textLength.
C10_RestoresProgress ==
  lastEvent.op = "loadFromLibrary" =>
    LET item == getFile(library, lastEvent.arg)[1]
        chars == IF item.progress > 0
                 THEN (item.progress * Len(item.text)) \div 100
                 ELSE 0
    IN  /\ TTSManager.currentPosition = chars * Tenths
        /\ 0 <= TTSManager.currentPosition
        /\ TTSManager.currentPosition <= TTSManager.textLength * Tenths

\* C10 witness: an item with stored progress is opened past its start.
C10_Resumed ==
  /\ lastEvent.op = "loadFromLibrary"
  /\ getFile(library, lastEvent.arg)[1].progress > 0
  /\ TTSManager.currentPosition > 0

\* C11: a step of togglePlayPause, of the progress bar's change or of
\* setPlaybackRate that calls speak leaves as the utterance the suffix of
\* extractedText from currentPosition as it is when speak is called, next in
\* a queue that holds nothing else; and no step leaves two utterances queued.
C11_SpeakStep ==
  LET text == PDFHandler.extractedText
      spoke ==
        \/ /\ lastEvent'.op = "togglePlayPause"
           /\ ~TTSManager.isPlaying /\ ~synth.paused /\ text # <<>>
        \/ lastEvent'.op = "progressChange" /\ text # <<>>
        \/ /\ lastEvent'.op = "setPlaybackRate"
           /\ TTSManager.isPlaying /\ text # <<>>
  IN  /\ synth'.queued <= 1
      /\ spoke =>
            /\ TTSManager'.utterance # <<>>
            /\ TTSManager'.utterance[1].text =
                 SliceFrom(text, TTSManager'.currentPosition \div Tenths)
            /\ synth'.queued = 1
            /\ synth'.state = "pending"

C11_SpeakSlicesAndCancels == [][C11_SpeakStep]_vars

\* C11 witness: the progress bar was released past the start while an
\* utterance was active, which speak cancelled.
C11_Respoken ==
  /\ lastEvent.op = "progressChange"
  /\ synth.cancelled > 0
  /\ TTSManager.utterance # <<>>
  /\ TTSManager.utterance[1].offset > 0
  /\ TTSManager.utterance[1].charIndex = -1

\* C12: every toast that is in the container is eventually out of it, and
\* once it is out no timer or removal request puts it back or starts a
\* removal timer for it.
C12_RemovedStaysRemoved ==
  \A i \in 1..Len(Toast) :
    ~Toast[i].attached =>
      /\ ~Toast'[i].attached
      /\ Toast'[i].removals <= Toast[i].removals

C12_ToastsGoAway ==
  /\ \A i \in 1..MaxToasts :
       (i <= Len(Toast) /\ Toast[i].attached)
         ~> (i <= Len(Toast) /\ ~Toast[i].attached)
  /\ [][C12_RemovedStaysRemoved]_vars

\* C12 witness: the duration timer has fired for a toast that the close
\* button had already removed, and has started nothing.
C12_TimerAfterRemoval ==
  /\ lastEvent.op = "Toast.timer"
  /\ ~Toast[lastEvent.arg].attached
  /\ Toast[lastEvent.arg].removals = 0

\* Emails compared after trimming and lower-casing.
SameEmail(e1, e2) == toLowerCase(Trim(e1)) = toLowerCase(Trim(e2))

\* C13: no two stored users have the same email after trimming and
\* lower-casing.
C13_EmailsUnique ==
  \A i, j \in 1..Len(AuthManager.users) :
    SameEmail(AuthManager.users[i].email, AuthManager.users[j].email) => i = j

\* C14: a login step returns success only for an email that, letter case
\* aside, is that of a stored user whose stored checksum is the checksum of
\* the password given, and the only current user it sets is that user; for
\* an unknown email or another password it returns the matching error and
\* changes neither the current user nor the users.
C14_LoginStep ==
  lastEvent'.op = "login" =>
    LET users == AuthManager.users
        matching == {i \in 1..Len(users) :
                       toLowerCase(users[i].email) = toLowerCase(lastEvent'.email)}
        first == CHOOSE i \in matching : \A j \in matching : i <= j
    IN  IF matching = {}
        THEN /\ lastEvent'.ret = "Account not found. Please sign up first."
             /\ AuthManager' = AuthManager
        ELSE IF hashPassword(lastEvent'.password) # users[first].password
        THEN /\ lastEvent'.ret = "Incorrect password"
             /\ AuthManager' = AuthManager
        ELSE /\ lastEvent'.ret = "success"
             /\ AuthManager'.users = users
             /\ \/ AuthManager'.currentUser = AuthManager.currentUser
                \/ /\ AuthManager'.currentUser # <<>>
                   /\ AuthManager'.currentUser[1].id = users[first].id
                   /\ AuthManager'.currentUser[1].email = users[first].email

C14_LoginChecksCredentials == [][C14_LoginStep]_vars

\* C14 witness: a login with the address in another letter case and the
\* right password has made a user other than the last registered current.
C14_LoggedInByCaselessEmail ==
  /\ lastEvent.op = "login"
  /\ lastEvent.ret = "success"
  /\ lastEvent.email = <<"A">>
  /\ Len(AuthManager.users) = 2
  /\ AuthManager.currentUser # <<>>
  /\ AuthManager.currentUser[1].id = AuthManager.users[1].id

\* C15: the stored current user has no password field.
C15_CurrentUserHasNoPassword ==
  AuthManager.currentUser # <<>> =>
    "password" \notin DOMAIN AuthManager.currentUser[1]

\* C15 witness: a user who logged in, whose stored record holds the
\* checksum, has had the premium status updated.
C15_UpdatedAfterLogin ==
  /\ lastEvent.op = "updatePremiumStatus"
  /\ AuthManager.currentUser # <<>>
  /\ AuthManager.currentUser[1].isPremium
  /\ \E i \in 1..Len(AuthManager.users) :
       /\ AuthManager.users[i].id = AuthManager.currentUser[1].id
       /\ AuthManager.users[i].password = hashPassword(<<"q">>)

\* C16: the premium fields of the stored current user are those of the
\* users record with the same id.
C16_PremiumInSync ==
  AuthManager.currentUser # <<>> =>
    \A i \in 1..Len(AuthManager.users) :
      AuthManager.users[i].id = AuthManager.currentUser[1].id =>
        /\ AuthManager.users[i].isPremium =
             AuthManager.currentUser[1].isPremium
        /\ AuthManager.users[i].premiumExpiresAt =
             AuthManager.currentUser[1].premiumExpiresAt

\* C17: a processFile that is refused (not a PDF; library full and user not
\* premium) changes neither the library nor PDFHandler nor TTSManager, and
\* shows the login modal to a user who is not logged in; one that goes on
\* to load was given a PDF with room in the library or a premium user.
C17_RejectedStep ==
  lastEvent'.op = "processFile" =>
    /\ lastEvent'.ret \in {"not a PDF", "log in", "limit"} =>
         /\ library' = library
         /\ PDFHandler' = PDFHandler
         /\ TTSManager' = TTSManager
         /\ procs' = procs
    /\ lastEvent'.ret = "log in" =>
         ~isLoggedIn /\ "login" \in Modal'.shown
    /\ lastEvent'.ret = "limit" => isLoggedIn /\ Modal' = Modal
    /\ lastEvent'.ret = "loading" =>
         LET file == procs'[lastEvent'.arg].file[1]
         IN  /\ file.type = PDF_TYPE \/ file.ext \in {"pdf", "PDF", "Pdf"}
             /\ premium \/ Len(library) < MAX_FREE_ITEMS

C17_RejectedChangesNothing == [][C17_RejectedStep]_vars

\* C17 witness: an upload was refused at the limit while a document loaded
\* earlier was in the player.
C17_RefusedAtLimit ==
  /\ lastEvent.op = "processFile"
  /\ lastEvent.ret = "limit"
  /\ TTSManager.textLength > 0
  /\ PDFHandler.extractedText # <<>>

\* C18: no two library items have the same id; addFile with an id that is
\* present replaces that item in place, with a new id it puts the item in
\* front; removeFile of an id that is present removes that item alone and
\* returns true, of another id it returns false and changes nothing.
C18_AddRemoveStep ==
  LET id == lastEvent'.arg
      i == findIndex(library, id)
  IN  /\ lastEvent'.op = "addFile" =>
           IF i # 0
           THEN library' = [library EXCEPT ![i] = lastEvent'.fileData]
           ELSE library' = <<lastEvent'.fileData>> \o library
      /\ lastEvent'.op = "removeFile" =>
           IF i # 0
           THEN /\ lastEvent'.ret = "true"
                /\ library' = SubSeq(library, 1, i - 1)
                                 \o SubSeq(library, i + 1, Len(library))
           ELSE lastEvent'.ret = "false" /\ library' = library
      /\ \A j, k \in 1..Len(library') :
           library'[j].id = library'[k].id => j = k

C18_AddRemoveContract == [][C18_AddRemoveStep]_vars

\* C19: when addFile has returned true, getFile of the id returns the file
\* data it was given.
C19_AddFileStep ==
  (lastEvent'.op = "addFile" /\ lastEvent'.ret = "true") =>
    getFile(library', lastEvent'.arg) = <<lastEvent'.fileData>>

C19_TrueMeansStored == [][C19_AddFileStep]_vars

\* C20: a step of togglePlayPause pauses the synthesizer and clears isPlaying
\* with currentPosition as it was when isPlaying was set; when not playing
\* with the synthesizer paused it resumes the utterance that is queued,
\* leaving it the same, and sets isPlaying; when neither and a document is
\* loaded it queues a new utterance sliced at currentPosition; and with no
\* document it changes nothing.
C20_ToggleStep ==
  lastEvent'.op = "togglePlayPause" =>
    IF TTSManager.isPlaying
    THEN /\ synth'.paused
         /\ ~TTSManager'.isPlaying
         /\ TTSManager'.currentPosition = TTSManager.currentPosition
    ELSE IF synth.paused
    THEN /\ ~synth'.paused
         /\ TTSManager'.isPlaying
         /\ TTSManager'.utterance = TTSManager.utterance
         /\ synth'.queued = synth.queued
         /\ synth.queued > 0
    ELSE IF PDFHandler.extractedText # <<>>
    THEN /\ TTSManager'.utterance # <<>>
         /\ TTSManager'.utterance[1].text =
              SliceFrom(PDFHandler.extractedText,
                        TTSManager.currentPosition \div Tenths)
         /\ synth'.queued = 1
         /\ TTSManager'.currentPosition = TTSManager.currentPosition
    ELSE UNCHANGED <<TTSManager, synth, progressBar>>

C20_ToggleCycle == [][C20_ToggleStep]_vars

\* C21: the close button's stop leaves the synthesizer with nothing queued,
\* isPlaying false, currentPosition 0 and the progress bar at 0, and leaves
\* textLength, playbackRate and the extracted text as they were; and a
\* togglePlayPause that follows it with a document loaded queues the whole
\* extracted text as the new utterance.
C21_StopStep ==
  /\ lastEvent'.op = "closePlayer" =>
       /\ synth'.queued = 0
       /\ synth'.state = "idle"
       /\ ~TTSManager'.isPlaying
       /\ TTSManager'.currentPosition = 0
       /\ progressBar'.n = 0
       /\ TTSManager'.textLength = TTSManager.textLength
       /\ TTSManager'.playbackRate = TTSManager.playbackRate
       /\ PDFHandler' = PDFHandler
  /\ ( /\ lastEvent.op = "closePlayer"
       /\ lastEvent'.op = "togglePlayPause"
       /\ PDFHandler.extractedText # <<>> ) =>
       /\ synth'.queued = 1
       /\ TTSManager'.utterance # <<>>
       /\ TTSManager'.utterance[1].text = PDFHandler.extractedText

C21_StopThenPlay == [][C21_StopStep]_vars

\* C22: a step that loads a document for playback (processFile,
\* loadDemoPDF, loadFromLibrary) leaves TTSManager.textLength equal to the
\* length of PDFHandler.extractedText.
C22_LoadStep ==
  ( \/ lastEvent'.op = "processFile" /\ lastEvent'.ret = "loaded"
    \/ lastEvent'.op = "loadDemoPDF"
    \/ lastEvent'.op = "loadFromLibrary" ) =>
    TTSManager'.textLength = Len(PDFHandler'.extractedText)

C22_LengthOfLoadedText == [][C22_LoadStep]_vars

\* C23: a step of setPlaybackRate taken while isPlaying is set, with a
\* document loaded, leaves currentPosition as it was and queues at the new
\* rate the extracted text from that position; taken while isPlaying is not
\* set it changes nothing but playbackRate and the rate of the utterance.
C23_RateStep ==
  lastEvent'.op = "setPlaybackRate" =>
    /\ TTSManager'.playbackRate \in PlaybackRates
    /\ IF TTSManager.isPlaying /\ PDFHandler.extractedText # <<>>
       THEN /\ TTSManager'.currentPosition = TTSManager.currentPosition
            /\ TTSManager'.utterance # <<>>
            /\ TTSManager'.utterance[1].rate = TTSManager'.playbackRate
            /\ TTSManager'.utterance[1].text =
                 SliceFrom(PDFHandler.extractedText,
                           TTSManager.currentPosition \div Tenths)
       ELSE /\ synth' = synth
            /\ progressBar' = progressBar
            /\ TTSManager' =
                 [TTSManager EXCEPT
                    !.playbackRate = TTSManager'.playbackRate,
                    !.utterance =
                       IF @ = <<>> THEN @
                       ELSE <<[@[1] EXCEPT
                                 !.rate = TTSManager'.playbackRate]>>]

C23_RateKeepsPosition == [][C23_RateStep]_vars

\* C24: the end or error event of an utterance that speak cancelled, when
\* it is delivered after the utterance that replaced it has started, leaves
\* isPlaying set and the progress bar as it was.
C24_CancelledStep ==
  ( /\ lastEvent'.op = "cancelled"
    /\ synth.state = "speaking"
    /\ TTSManager.isPlaying ) =>
    /\ TTSManager'.isPlaying
    /\ progressBar' = progressBar

C24_LateEventIgnored == [][C24_CancelledStep]_vars

\* A returning user logs in, opens the demo or a stored document, presses
\* forward once and presses the bookmark button.
NextMark ==
  \/ Login(<<"a">>, <<"p">>, TRUE)
  \/ Logout
  \/ LoadDemo
  \/ \E id \in 1..MaxIds : LibraryPlay(id)
  \/ TTSManager.currentPosition = 0 /\ Seek(SEEK_STEP)
  \/ BookmarkButton(TRUE)

SpecMark == InitReturning /\ [][NextMark]_vars

\* C25: a press of the bookmark button that follows the loading of a library
\* item adds to that item, and to no other, the bookmark made of
\* currentPosition and the snippet of the extracted text; a press that
\* follows the loading of the demo document leaves the library as it was.
C25_BookmarkStep ==
  LET pressed == lastEvent'.op \in {"bookmark", "addBookmark"}
      bookmark ==
        [position |-> TTSManager.currentPosition,
         text |-> Slice(PDFHandler.extractedText,
                        TTSManager.currentPosition \div Tenths,
                        (TTSManager.currentPosition
                           + SNIPPET_LEN * Tenths) \div Tenths)]
  IN  /\ ( /\ pressed
           /\ lastEvent.op = "loadFromLibrary"
           /\ lastEvent'.ret = "true" ) =>
           library' = addBookmark(library, lastEvent.arg, nextId, bookmark)
      /\ (pressed /\ lastEvent.op = "loadDemoPDF") => library' = library

C25_BookmarkOnLoadedItem == [][C25_BookmarkStep]_vars

\* C26: no step of a processFile call whose loadPDF or extractText fails
\* changes the library, PDFHandler.extractedText and pages, or
\* TTSManager.textLength and currentPosition, so that they have after the
\* call the values they had before it.
C26_FailingStep ==
  LET busy == IF procs[1].pc # "idle" THEN procs[1] ELSE procs'[1]
      fails == /\ busy.pc # "idle"
               /\ (~busy.file[1].valid \/ busy.file[1].failPage # 0)
  IN  fails =>
        /\ library' = library
        /\ PDFHandler'.extractedText = PDFHandler.extractedText
        /\ PDFHandler'.pages = PDFHandler.pages
        /\ TTSManager'.textLength = TTSManager.textLength
        /\ TTSManager'.currentPosition = TTSManager.currentPosition

C26_FailureKeepsDocument == [][C26_FailingStep]_vars

\* C27: a press of the close button made after narration of the uploaded
\* document has advanced (a word boundary past the start of the utterance
\* was reached and currentPosition > 0) leaves the library item of
\* that document with a stored progress greater than 0.
C27_CloseStep ==
  ( /\ lastEvent'.op = "closePlayer"
    /\ TTSManager.currentPosition > 0
    /\ TTSManager.utterance # <<>>
    /\ TTSManager.utterance[1].charIndex > 0
    /\ library # <<>> ) =>
    \E i \in 1..Len(library') : library'[i].progress > 0

C27_CloseStoresProgress == [][C27_CloseStep]_vars

\* Two accounts on one browser: user a uploads and deletes files, and
\* either user logs in and out between the uploads.
UserA == SavedUser(1)

UserB == [SavedUser(2) EXCEPT !.email = <<"b">>]

InitScope == InitWith(<<>>, <<UserA, UserB>>)

NextScope ==
  \/ /\ NoProcBusy
     /\ AuthManager.currentUser # <<>>
     /\ AuthManager.currentUser[1].id = UserA.id
     /\ \/ \E file \in {FileA, FileE} : ProcessFileStart(1, file)
        \/ \E id \in 1..MaxIds : RemoveFile(id, TRUE)
  \/ LoadResolve(1)
  \/ \E i \in 1..2 : PageResolve(1, i)
  \/ ExtractFinish(1, TRUE)
  \/ NoProcBusy /\ \E email \in {<<"a">>, <<"b">>} : Login(email, <<"p">>, TRUE)
  \/ NoProcBusy /\ Logout

SpecScope == InitScope /\ [][NextScope]_vars

\* C28: while user b, who has saved no file, is logged in, getLibrary
\* returns no file and canAddFile allows a file to be added.
C28_LibraryPerAccount ==
  ( /\ AuthManager.currentUser # <<>>
    /\ AuthManager.currentUser[1].id = UserB.id ) =>
    /\ library = <<>>
    /\ canAddFile.canAdd

\* Modals are shown and hidden in any order, and a stored user logs in and
\* out.
NextModal ==
  \/ \E modalId \in ModalIds : ShowModal(modalId)
  \/ \E modalId \in ModalIds : HideModal(modalId)
  \/ HideAllModals
  \/ \E password \in {<<"p">>, <<"q">>} : Login(<<"a">>, password, TRUE)
  \/ Logout

SpecModal == InitScope /\ [][NextModal]_vars

\* C29: activeModal is null, and the page scrolls, only when no modal is
\* shown, and while a modal is shown activeModal names a modal that is
\* shown.
C29_ActiveModalIsShown ==
  /\ (Modal.activeModal = Null \/ scrollEnabled(Modal)) => Modal.shown = {}
  /\ Modal.shown # {} => Modal.activeModal \in Modal.shown

====
